---- MODULE Spec2Model ----
(***************************************************************************)
(* StrategyOptimizer (src/optimizer.js): one engine instance, its          *)
(* optimize() calls as asynchronous tasks, stop(), and the completions of  *)
(* the awaited evaluator calls and pacing delays.                          *)
(*                                                                         *)
(* JavaScript runs each task without interruption between two awaits, so   *)
(* an action is one such synchronous segment: from the call, or from the   *)
(* resumption of an await, up to the next await or the return.             *)
(***************************************************************************)
EXTENDS Integers, Sequences, FiniteSets, TLC

(***************************************************************************)
(* Bounds of the model.                                                    *)
(***************************************************************************)
\* optimize() calls made on the engine over its lifetime
MaxCalls == 2
\* the evaluator's scores are 0..MaxScore
MaxScore == 1
\* sum of the maxIterations settings of the runs pending at the same time,
\* when there are several
MaxOverlapIterations == 5
\* direct calls of one of the engine's methods made in a row
MaxDirectCalls == 2
\* arrays up to this length are shuffled with every sequence of random draws,
\* longer ones only with the draws that exchange every element with itself
MaxShuffled == 3

Calls == 1..MaxCalls
Scores == 0..MaxScore

\* settings.maxIterations of a call: 1, the smallest budget that gives Deep a
\* grid evaluation (floor(4 * 0.3) = 1), and the smallest budget that gives
\* its genetic phase a generation (floor(25 * 0.4) = 10)
IterationChoices == {1, 4, 25}
DepthChoices == {"basic", "standard", "deep"}

\* parameter definitions handed to optimize()
ParamFixed == [name |-> "a", type |-> "integer", min |-> 0, max |-> 0, step |-> 1]
ParamLength == [name |-> "a", type |-> "integer", min |-> 0, max |-> 1, step |-> 1]
ParameterChoices == {<<ParamFixed>>, <<ParamLength>>}
\* a definition with min > max
ParamMalformed == [name |-> "a", type |-> "integer", min |-> 1, max |-> 0, step |-> 1]

(***************************************************************************)
(* Values.                                                                 *)
(***************************************************************************)
\* JavaScript null, for bestResult and currentOptimization
Null == [null |-> TRUE]
\* fitness: null of an individual not yet evaluated
NullFitness == -1

Min(a, b) == IF a < b THEN a ELSE b
Max(a, b) == IF a > b THEN a ELSE b

\* Math.round(a / b) for b > 0: halves round towards +Infinity
MathRound(a, b) == (2 * a + b) \div (2 * b)

\* array.includes(value)
Includes(seq, value) == \E k \in 1..Len(seq) : seq[k] = value

\* { ...object, [key]: value }
Put(object, key, value) ==
    [k \in DOMAIN object \cup {key} |-> IF k = key THEN value ELSE object[k]]

EmptyObject == [k \in {} |-> 0]

\* Body applied to value, with value computed once
Let(value, Body(_)) == CHOOSE r \in { Body(v) : v \in {value} } : TRUE

\* array.sort((a, b) => Key(b) - Key(a)): stable, descending; an element
\* goes after those of greater key and those of equal key before it
SortDescending(array, Key(_)) ==
    Let(array, LAMBDA a :
        Let([k \in 1..Len(a) |->
               1 + Cardinality({ j \in 1..Len(a) :
                                   \/ Key(a[j]) > Key(a[k])
                                   \/ Key(a[j]) = Key(a[k]) /\ j < k })],
            LAMBDA position :
                [p \in 1..Len(a) |-> a[CHOOSE k \in 1..Len(a) : position[k] = p]]))

(***************************************************************************)
(* Candidate generator.                                                    *)
(***************************************************************************)
CombinationLimit == 10000

densityMap(density) ==
    CASE density = "basic" -> 3
      [] density = "coarse" -> 5
      [] density = "standard" -> 7
      [] density = "fine" -> 10
      [] OTHER -> 5

\* the loop of generateParameterSteps without the includes test
RECURSIVE StepsFromKeepsDuplicates(_, _, _, _)
StepsFromKeepsDuplicates(param, stepCount, i, steps) ==
    IF i >= stepCount THEN steps
    ELSE StepsFromKeepsDuplicates(
             param, stepCount, i + 1,
             Append(steps, MathRound(param.min * (stepCount - 1) + (param.max - param.min) * i,
                                     stepCount - 1)))

RECURSIVE StepsFrom(_, _, _, _)
StepsFrom(param, stepCount, i, steps) ==
    IF i >= stepCount THEN steps
    ELSE LET value == MathRound(param.min * (stepCount - 1) + (param.max - param.min) * i,
                                stepCount - 1)
         IN StepsFrom(param, stepCount, i + 1,
                      IF Includes(steps, value) THEN steps ELSE Append(steps, value))

\* generateParameterSteps with the boolean samples taken by density: one
\* sample below five steps
generateParameterStepsByDensity(param, stepCount) ==
    IF param.type = "boolean" THEN (IF stepCount < 5 THEN <<TRUE>> ELSE <<TRUE, FALSE>>)
    ELSE IF param.type = "integer" THEN StepsFrom(param, stepCount, 0, <<>>)
    ELSE <<>>

generateParameterSteps(param, stepCount) ==
    IF param.type = "boolean" THEN <<TRUE, FALSE>>
    ELSE IF param.type = "integer" THEN StepsFrom(param, stepCount, 0, <<>>)
    ELSE <<>>

RECURSIVE generateCombinations(_, _, _, _, _)
RECURSIVE CombinationsLoop(_, _, _, _, _, _, _)
RECURSIVE CombinationsLoopNoLimit(_, _, _, _, _, _, _)
generateCombinations(params, stepsPerParam, index, current, sets) ==
    IF index > Len(params) THEN Append(sets, current)
    ELSE CombinationsLoop(params, stepsPerParam, index, current, sets,
                          generateParameterSteps(params[index], stepsPerParam), 1)
\* the loop of generateCombinations without the test of sets.length
CombinationsLoopNoLimit(params, stepsPerParam, index, current, sets, steps, k) ==
    IF k > Len(steps) THEN sets
    ELSE Let(generateCombinations(params, stepsPerParam, index + 1,
                                  Put(current, params[index].name, steps[k]), sets),
             LAMBDA next :
                 CombinationsLoopNoLimit(params, stepsPerParam, index, current, next,
                                         steps, k + 1))

CombinationsLoop(params, stepsPerParam, index, current, sets, steps, k) ==
    IF k > Len(steps) THEN sets
    ELSE LET next == generateCombinations(params, stepsPerParam, index + 1,
                                          Put(current, params[index].name, steps[k]), sets)
         IN IF Len(next) >= CombinationLimit THEN next
            ELSE CombinationsLoop(params, stepsPerParam, index, current, next, steps, k + 1)

\* the permutations of a sequence
Orders(seq) ==
    LET n == Len(seq)
    IN { [k \in 1..n |-> seq[p[k]]] :
           p \in { q \in [1..n -> 1..n] : \A a, b \in 1..n : a # b => q[a] # q[b] } }

\* [shuffled[i], shuffled[j]] = [shuffled[i]] with the second half of the
\* exchange lost
Overwrite(array, i, j) == [array EXCEPT ![i] = array[j]]

\* [shuffled[i], shuffled[j]] = [shuffled[j], shuffled[i]], positions from 1
Swap(array, i, j) == [array EXCEPT ![i] = array[j], ![j] = array[i]]

\* for (let i = length - 1; i > 0; i--) with j = Math.floor(Math.random() * (i + 1)),
\* for every j the draw can give
RECURSIVE ShuffleFrom(_, _)
ShuffleFrom(shuffled, i) ==
    IF i <= 0 THEN {shuffled}
    ELSE UNION { ShuffleFrom(Swap(shuffled, i + 1, j + 1), i - 1) : j \in 0..i }

\* the arrays shuffleArray can return
shuffleArray(array) ==
    IF Len(array) <= MaxShuffled THEN ShuffleFrom(array, Len(array) - 1)
    ELSE {Swap(array, Len(array), Len(array))}

\* the arrays generateParameterSets can return
generateParameterSets(parameters, density) ==
    shuffleArray(generateCombinations(parameters, densityMap(density), 1, EmptyObject, <<>>))

\* the value moved by the steps, not held within [min, max]
PerturbUnclamped(param, currentValue, multiplier) ==
    currentValue + param.step * multiplier

\* Math.max(min, Math.min(max, currentValue + step * multiplier)), rounded
Perturb(param, currentValue, multiplier) ==
    Max(param.min, Min(param.max, currentValue + param.step * multiplier))

RECURSIVE VariationsFrom(_, _, _, _)
VariationsFrom(param, currentValue, multipliers, variations) ==
    IF multipliers = <<>> THEN variations
    ELSE LET newValue == Perturb(param, currentValue, Head(multipliers))
         IN VariationsFrom(param, currentValue, Tail(multipliers),
                           IF newValue # currentValue THEN Append(variations, newValue)
                           ELSE variations)

generateParameterVariations(param, currentValue) ==
    IF param.type = "integer"
    THEN VariationsFrom(param, currentValue, <<-2, -1, 1, 2>>, <<>>)
    ELSE <<>>

\* one parameter set per variation, the other values unchanged
RECURSIVE WithEach(_, _, _)
WithEach(parameters, name, values) ==
    IF values = <<>> THEN <<>>
    ELSE <<Put(parameters, name, Head(values))>> \o WithEach(parameters, name, Tail(values))

generateNeighbors(parameters, param) ==
    WithEach(parameters, param.name, generateParameterVariations(param, parameters[param.name]))

\* the first occurrence of every set, in order
removeDuplicateSets(sets) ==
    Let(sets, LAMBDA all :
        Let({ k \in 1..Len(all) : \A j \in 1..(k - 1) : all[j] # all[k] },
            LAMBDA unique :
                [p \in 1..Cardinality(unique) |->
                   all[CHOOSE k \in unique : Cardinality({ j \in unique : j < k }) = p - 1]]))

RECURSIVE FineForResult(_, _, _)
FineForResult(result, parameters, k) ==
    IF k > Len(parameters) THEN <<>>
    ELSE WithEach(result.parameters, parameters[k].name,
                  generateParameterVariations(parameters[k],
                                              result.parameters[parameters[k].name]))
         \o FineForResult(result, parameters, k + 1)

RECURSIVE FineForAll(_, _)
FineForAll(topResults, parameters) ==
    IF topResults = <<>> THEN <<>>
    ELSE FineForResult(Head(topResults), parameters, 1) \o FineForAll(Tail(topResults), parameters)

\* generateFineParameterSets returning the sets as they were pushed
generateFineParameterSetsKeepsDuplicates(topResults, parameters) ==
    FineForAll(topResults, parameters)

generateFineParameterSets(topResults, parameters) ==
    removeDuplicateSets(FineForAll(topResults, parameters))

\* Math.floor(Math.random() * (max - min + 1)) + min: with max - min + 1 = n
\* the product lies in [0, n) for n > 0, is 0 for n = 0, and lies in (n, 0]
\* for n < 0
generateRandomValue(param) ==
    IF param.type = "boolean" THEN {TRUE, FALSE}
    ELSE IF param.type = "integer"
         THEN IF param.max >= param.min THEN param.min..param.max
              ELSE (param.max + 1)..param.min
    ELSE {param.current}

(***************************************************************************)
(* Result tracker.                                                         *)
(***************************************************************************)
\* array.sort((a, b) => b.score - a.score)
ScoreOf(result) == result.score
SortByScore(array) == SortDescending(array, ScoreOf)

\* getTopResults sorts this.results in place and returns the first count
getTopResults(results, count) == SubSeq(SortByScore(results), 1, Min(count, Len(results)))

\* updateBestResult with >= for >: a tie displaces the holder
updateBestResultOnTie(bestResult, result) ==
    IF bestResult = Null \/ result.score >= bestResult.score THEN result ELSE bestResult

updateBestResult(bestResult, result) ==
    IF bestResult = Null \/ result.score > bestResult.score THEN result ELSE bestResult

\* results.reduce((sum, r) => sum + r.score, 0)
RECURSIVE SumScoresTo(_, _)
SumScoresTo(results, n) ==
    IF n = 0 THEN 0 ELSE results[n].score + SumScoresTo(results, n - 1)

SumScores(results) == SumScoresTo(results, Len(results))

\* ((bestScore - firstScore) / firstScore) * 100 as the fraction num / den;
\* results is the array as calculateImprovement finds it
calculateImprovement(results, bestResult) ==
    IF Len(results) < 2 THEN [num |-> 0, den |-> 1]
    ELSE [num |-> (bestResult.score - results[1].score) * 100, den |-> results[1].score]

\* calculateImprovement reads this.bestResult.score: a TypeError on null
compileResultsThrows(results, bestResult) == Len(results) >= 2 /\ bestResult = Null

\* compileResults with summary placed before topResults in the literal:
\* averageScore and improvement read this.results before it is sorted
compileResultsSummaryFirst(results, bestResult) ==
    Let(SortByScore(results), LAMBDA sorted :
        [success |-> TRUE,
         totalTests |-> Len(results),
         bestResult |-> bestResult,
         topResults |-> SubSeq(sorted, 1, Min(10, Len(sorted))),
         summary |-> [bestScore |-> IF bestResult = Null THEN 0 ELSE bestResult.score,
                      averageScore |-> [num |-> SumScores(results), den |-> Len(results)],
                      improvement |-> calculateImprovement(results, bestResult),
                      parameters |-> IF bestResult = Null THEN EmptyObject
                                     ELSE bestResult.parameters]])

\* the object literal is evaluated in order: topResults sorts this.results
\* before averageScore and improvement read it
compileResults(results, bestResult) ==
    Let(SortByScore(results), LAMBDA sorted :
        [success |-> TRUE,
         totalTests |-> Len(results),
         bestResult |-> bestResult,
         topResults |-> SubSeq(sorted, 1, Min(10, Len(sorted))),
         summary |-> [bestScore |-> IF bestResult = Null THEN 0 ELSE bestResult.score,
                      averageScore |-> [num |-> SumScores(sorted), den |-> Len(sorted)],
                      improvement |-> calculateImprovement(sorted, bestResult),
                      parameters |-> IF bestResult = Null THEN EmptyObject
                                     ELSE bestResult.parameters]])

\* Math.min(10, (max - min) / step) per numeric parameter, 2 per boolean;
\* the parameter choices of the model have step dividing max - min
RECURSIVE Combinations(_)
Combinations(parameters) ==
    IF parameters = <<>> THEN 1
    ELSE LET param == Head(parameters)
         IN (IF param.type = "boolean" THEN 2
             ELSE IF param.type = "integer"
                  THEN Min(10, (param.max - param.min) \div param.step)
             ELSE 1) * Combinations(Tail(parameters))

calculateTotalIterations(parameters, maxIterations) ==
    Min(Combinations(parameters), maxIterations)

(***************************************************************************)
(* Genetic phase helpers. A population is a sequence of individuals        *)
(* [genes, fitness]; the random draws are the sets of possible outcomes.   *)
(***************************************************************************)
\* individual.fitness || 0
FitnessOrZero(individual) == IF individual.fitness = NullFitness THEN 0 ELSE individual.fitness

\* !individual.fitness
FitnessFalsy(individual) == individual.fitness = NullFitness \/ individual.fitness = 0

\* the objects { name: generateRandomValue(param), ... }
RECURSIVE RandomIndividuals(_)
RandomIndividuals(parameters) ==
    IF parameters = <<>> THEN {EmptyObject}
    ELSE { Put(genes, parameters[Len(parameters)].name, value) :
             genes \in RandomIndividuals(SubSeq(parameters, 1, Len(parameters) - 1)),
             value \in generateRandomValue(parameters[Len(parameters)]) }

\* topResults is getTopResults(Math.min(5, size))
initializePopulation(topResults, parameters, size) ==
    Let([k \in 1..Len(topResults) |->
           [genes |-> topResults[k].parameters, fitness |-> topResults[k].score]],
        LAMBDA seeded :
            { seeded \o [k \in 1..(size - Len(seeded)) |->
                           [genes |-> random[k], fitness |-> NullFitness]] :
                random \in [1..(size - Len(seeded)) -> RandomIndividuals(parameters)] })

\* tournament of three uniformly drawn individuals
Fitter(candidate, best) ==
    IF FitnessOrZero(candidate) > FitnessOrZero(best) THEN candidate ELSE best

selectParent(population) ==
    Let(population, LAMBDA drawnFrom :
        { winner \in { drawnFrom[k] : k \in 1..Len(drawnFrom) } :
            \E first, second, third \in { drawnFrom[k] : k \in 1..Len(drawnFrom) } :
                \E best \in {Fitter(second, first)} : winner = Fitter(third, best) })

RECURSIVE crossover(_, _, _)
crossover(parent1, parent2, parameters) ==
    IF parameters = <<>> THEN {EmptyObject}
    ELSE LET name == parameters[Len(parameters)].name
         IN { Put(offspring, name, value) :
                offspring \in crossover(parent1, parent2, SubSeq(parameters, 1, Len(parameters) - 1)),
                value \in {parent1.genes[name], parent2.genes[name]} }

\* each parameter is re-drawn with probability 0.1, independently
RECURSIVE mutate(_, _)
mutate(individual, parameters) ==
    IF parameters = <<>> THEN {individual}
    ELSE LET param == parameters[Len(parameters)]
         IN { Put(mutated, param.name, value) :
                mutated \in mutate(individual, SubSeq(parameters, 1, Len(parameters) - 1)),
                value \in {individual[param.name]} \cup generateRandomValue(param) }

\* mutate with what it did: the individual as it leaves it, and the names of
\* the parameters whose Math.random() < 0.1 came true, for which
\* generateRandomValue was called; the others are skipped
RECURSIVE mutateDraws(_, _)
mutateDraws(individual, parameters) ==
    IF parameters = <<>> THEN {[individual |-> individual, redrawn |-> {}]}
    ELSE LET param == parameters[Len(parameters)]
         IN UNION { {before}
                    \cup { [individual |-> Put(before.individual, param.name, value),
                            redrawn |-> before.redrawn \cup {param.name}] :
                              value \in generateRandomValue(param) } :
                      before \in mutateDraws(individual,
                                             SubSeq(parameters, 1, Len(parameters) - 1)) }

\* population.sort((a, b) => (b.fitness || 0) - (a.fitness || 0))
SortByFitness(population) == SortDescending(population, FitnessOrZero)

eliteCount(population) == (Len(population) * 2) \div 10

\* the next generations evolvePopulation can return
\* the genes an offspring of the sorted population can get
Offspring(sorted, parameters) ==
    Let(selectParent(sorted), LAMBDA parents :
        UNION { UNION { mutate(child, parameters) : child \in crossover(p1, p2, parameters) } :
                  p1 \in parents, p2 \in parents })

\* evolvePopulation filling as many slots as the population has after the
\* elite was kept: the next generation is larger by the elite
evolvePopulationGrows(population, parameters) ==
    Let(SortByFitness(population), LAMBDA sorted :
        Let(SubSeq(sorted, 1, eliteCount(sorted)), LAMBDA elite :
            Let(Offspring(sorted, parameters), LAMBDA offspring :
                { elite \o [k \in 1..Len(sorted) |->
                              [genes |-> children[k], fitness |-> NullFitness]] :
                    children \in [1..Len(sorted) -> offspring] })))

\* evolvePopulation keeping the first fifth of the population as it was
\* handed in, without sorting it by fitness
evolvePopulationUnsorted(population, parameters) ==
    Let(population, LAMBDA sorted :
        Let(SubSeq(sorted, 1, eliteCount(sorted)), LAMBDA elite :
            Let(Offspring(sorted, parameters), LAMBDA offspring :
                { elite \o [k \in 1..(Len(sorted) - Len(elite)) |->
                              [genes |-> children[k], fitness |-> NullFitness]] :
                    children \in [1..(Len(sorted) - Len(elite)) -> offspring] })))

evolvePopulation(population, parameters) ==
    Let(SortByFitness(population), LAMBDA sorted :
        Let(SubSeq(sorted, 1, eliteCount(sorted)), LAMBDA elite :
            Let(Offspring(sorted, parameters), LAMBDA offspring :
                { elite \o [k \in 1..(Len(sorted) - Len(elite)) |->
                              [genes |-> children[k], fitness |-> NullFitness]] :
                    children \in [1..(Len(sorted) - Len(elite)) -> offspring] })))

(***************************************************************************)
(* State.                                                                  *)
(***************************************************************************)
VARIABLES
    isOptimizing,         \* this.isOptimizing
    currentOptimization,  \* this.currentOptimization
    results,              \* this.results
    bestResult,           \* this.bestResult
    progressCallback,     \* this.progressCallback
    emitted,              \* the events handed to the progress callback in the last step
    returned,             \* what the direct calls of the engine's methods made since
                          \* the last step of a run returned
    nextRef,              \* the next EvaluationResult object to be allocated
    calls                 \* the optimize() calls: position and local variables

vars == <<isOptimizing, currentOptimization, results, bestResult, progressCallback,
          emitted, returned, nextRef, calls>>

\* a call not made yet; pc is where the call stands:
\*   "idle" not called, "eval" awaiting testParameterSet, "delay" awaiting the
\*   pacing delay, "done" returned its summary, "rejected" threw at the call
\*   because a run was active, "failed" threw from within its run; error is
\*   what a failed call threw
IdleCall ==
    [pc |-> "idle", depth |-> "", maxIterations |-> 0, parameters |-> <<>>,
     phase |-> "none", sets |-> <<>>, i |-> 0, maxSets |-> 0,
     evalParameters |-> EmptyObject, evalIteration |-> 0,
     population |-> <<>>, gen |-> 0, generations |-> 0,
     currentBest |-> Null, improved |-> FALSE, iteration |-> 0, iterations |-> 0,
     paramIndex |-> 0, neighbors |-> <<>>,
     summary |-> Null, error |-> "none",
     tested |-> 0,       \* history: the evaluator calls made in the current phase
     stopped |-> FALSE]  \* history: stop() was called while the call was pending

Pending(call) == call.pc \in {"eval", "delay"}

\* the engine and one call, as a synchronous segment of that call sees them
Frame(c) ==
    [isOptimizing |-> isOptimizing, currentOptimization |-> currentOptimization,
     results |-> results, bestResult |-> bestResult,
     progressCallback |-> progressCallback, emitted |-> <<>>,
     nextRef |-> nextRef, t |-> calls[c]]

Commit(c, st) ==
    /\ isOptimizing' = st.isOptimizing
    /\ currentOptimization' = st.currentOptimization
    /\ results' = st.results
    /\ bestResult' = st.bestResult
    /\ progressCallback' = st.progressCallback
    /\ emitted' = st.emitted
    /\ returned' = <<>>
    /\ nextRef' = st.nextRef
    /\ calls' = [calls EXCEPT ![c] = st.t]

(***************************************************************************)
(* The synchronous segments of optimize(). Each operator is a point of the *)
(* code and gives the set of frames at the next await or at the return.    *)
(***************************************************************************)
\* await this.testParameterSet(parameters, iteration)
AwaitTest(st, parameters, iteration) ==
    [st EXCEPT !.t.pc = "eval", !.t.evalParameters = parameters, !.t.evalIteration = iteration,
               !.t.tested = @ + 1]

\* return this.compileResults(), then optimize's isOptimizing = false; return.
\* An error thrown by compileResults reaches optimize's catch, which clears
\* isOptimizing and rethrows.
Return(st) ==
    [st EXCEPT !.isOptimizing = FALSE,
               !.results = SortByScore(st.results),
               !.t = [IdleCall EXCEPT !.pc = IF compileResultsThrows(st.results, st.bestResult)
                                             THEN "failed" ELSE "done",
                                      !.depth = st.t.depth,
                                      !.maxIterations = st.t.maxIterations,
                                      !.parameters = st.t.parameters,
                                      !.summary = IF compileResultsThrows(st.results, st.bestResult)
                                                  THEN Null
                                                  ELSE compileResults(st.results, st.bestResult),
                                      !.error = IF compileResultsThrows(st.results, st.bestResult)
                                                THEN "TypeError" ELSE "none",
                                      !.stopped = st.t.stopped]]

\* a catch block that rethrows without clearing isOptimizing
CatchKeepsRunning(st, error) ==
    [st EXCEPT !.t = [IdleCall EXCEPT !.pc = "failed",
                                      !.depth = st.t.depth,
                                      !.maxIterations = st.t.maxIterations,
                                      !.parameters = st.t.parameters,
                                      !.error = error,
                                      !.stopped = st.t.stopped]]

\* optimize's catch block after error was thrown inside the try: it clears
\* isOptimizing and rethrows, so the call rejects
Catch(st, error) ==
    [st EXCEPT !.isOptimizing = FALSE,
               !.t = [IdleCall EXCEPT !.pc = "failed",
                                      !.depth = st.t.depth,
                                      !.maxIterations = st.t.maxIterations,
                                      !.parameters = st.t.parameters,
                                      !.error = error,
                                      !.stopped = st.t.stopped]]

\* the code goes on at Continue with the frame st
Then(st, Continue(_)) == UNION { Continue(frame) : frame \in {st} }

RECURSIVE geneticGenLoop(_)
RECURSIVE geneticIndLoop(_)
RECURSIVE localWhile(_)
RECURSIVE localParamLoop(_)
RECURSIVE localNeighborLoop(_)

\* the neighbor loop without the test of the budget at line 445
localNeighborLoopUnbudgeted(st) ==
    IF st.t.i >= Len(st.t.neighbors) \/ ~st.isOptimizing
    THEN Then([st EXCEPT !.t.paramIndex = @ + 1, !.t.neighbors = <<>>, !.t.i = 0],
              localParamLoop)
    ELSE {AwaitTest(st, st.t.neighbors[st.t.i + 1], Len(st.results))}

\* while (improved && iteration < iterations && this.isOptimizing)
localWhile(st) ==
    IF st.t.improved /\ st.t.iteration < st.t.iterations /\ st.isOptimizing
    THEN Then([st EXCEPT !.t.improved = FALSE, !.t.paramIndex = 1], localParamLoop)
    ELSE {Return(st)}

\* for (const param of parameters)
localParamLoop(st) ==
    IF st.t.paramIndex > Len(st.t.parameters) THEN localWhile(st)
    ELSE IF ~st.isOptimizing \/ st.t.iteration >= st.t.iterations THEN localWhile(st)
    ELSE Then([st EXCEPT !.t.neighbors = generateNeighbors(st.t.currentBest.parameters,
                                                           st.t.parameters[st.t.paramIndex]),
                         !.t.i = 0],
              localNeighborLoop)

\* for (const neighbor of neighbors)
localNeighborLoop(st) ==
    IF st.t.i >= Len(st.t.neighbors)
       \/ ~st.isOptimizing \/ st.t.iteration >= st.t.iterations
    THEN Then([st EXCEPT !.t.paramIndex = @ + 1, !.t.neighbors = <<>>, !.t.i = 0],
              localParamLoop)
    ELSE {AwaitTest(st, st.t.neighbors[st.t.i + 1], Len(st.results))}

localSearchOptimization(st, iterations) ==
    Then([st EXCEPT !.t.phase = "local", !.t.tested = 0, !.t.sets = <<>>, !.t.maxSets = 0,
                    !.t.population = <<>>, !.t.gen = 0, !.t.generations = 0,
                    !.t.currentBest = st.bestResult, !.t.improved = TRUE,
                    !.t.iteration = 0, !.t.iterations = iterations],
         localWhile)

\* Phase 3 of deepOptimization
deepPhase3(st) ==
    IF st.isOptimizing /\ st.bestResult # Null
    THEN localSearchOptimization(st, st.t.maxIterations - Len(st.results))
    ELSE {Return(st)}

\* for (let gen = 0; gen < generations; gen++)
geneticGenLoop(st) ==
    IF st.t.gen < st.t.generations /\ st.isOptimizing
    THEN Then([st EXCEPT !.t.i = 0], geneticIndLoop)
    ELSE deepPhase3(st)

\* for (let i = 0; i < population.length; i++), then evolvePopulation
geneticIndLoop(st) ==
    IF st.t.i < Len(st.t.population) /\ st.isOptimizing
    THEN IF FitnessFalsy(st.t.population[st.t.i + 1])
         THEN {AwaitTest(st, st.t.population[st.t.i + 1].genes, Len(st.results))}
         ELSE Then([st EXCEPT !.t.i = @ + 1], geneticIndLoop)
    ELSE UNION { Then([st EXCEPT !.t.population = population, !.t.gen = @ + 1], geneticGenLoop) :
                   population \in evolvePopulation(st.t.population, st.t.parameters) }

\* with no generation to run, the population is never read
geneticOptimization(st, iterations) ==
    LET populationSize == Min(20, Max(10, iterations \div 5))
        generations == iterations \div populationSize
        topResults == getTopResults(st.results, Min(5, populationSize))
        populations == IF generations = 0 THEN {<<>>}
                       ELSE initializePopulation(topResults, st.t.parameters, populationSize)
    IN UNION { Then([st EXCEPT !.results = SortByScore(st.results),
                               !.t.phase = "genetic", !.t.tested = 0,
                               !.t.sets = <<>>, !.t.maxSets = 0,
                               !.t.population = population,
                               !.t.gen = 0, !.t.generations = generations],
                    geneticGenLoop) :
                 population \in populations }

\* Phase 2 of deepOptimization
deepPhase2(st) ==
    IF st.isOptimizing /\ Len(st.results) > 0
    THEN geneticOptimization(st, (st.t.maxIterations * 4) \div 10)
    ELSE deepPhase3(st)

\* the grid loop of deepOptimization
deepLoop1(st) ==
    IF st.t.i < st.t.maxSets /\ st.isOptimizing
    THEN {AwaitTest(st, st.t.sets[st.t.i + 1], st.t.i)}
    ELSE deepPhase2(st)

\* the refinement loop of standardOptimization
standardLoop2(st) ==
    IF st.t.i < st.t.maxSets /\ st.isOptimizing
    THEN {AwaitTest(st, st.t.sets[st.t.i + 1], Len(st.results))}
    ELSE {Return(st)}

\* Phase 2 of standardOptimization
standardPhase2(st) ==
    IF st.isOptimizing /\ Len(st.results) > 0
    THEN LET topResults == getTopResults(st.results, 5)
             fineParameterSets == generateFineParameterSets(topResults, st.t.parameters)
             remainingIterations == st.t.maxIterations - Len(st.results)
             maxSets == Min(Len(fineParameterSets), remainingIterations)
         IN Then([st EXCEPT !.results = SortByScore(st.results),
                            !.t.phase = "fine", !.t.tested = 0,
                            !.t.sets = SubSeq(fineParameterSets, 1, maxSets),
                            !.t.i = 0, !.t.maxSets = maxSets],
                 standardLoop2)
    ELSE {Return(st)}

\* the grid loop of standardOptimization without the test of isOptimizing
standardLoop1Unchecked(st) ==
    IF st.t.i < st.t.maxSets
    THEN {AwaitTest(st, st.t.sets[st.t.i + 1], st.t.i)}
    ELSE standardPhase2(st)

\* the grid loop of standardOptimization
standardLoop1(st) ==
    IF st.t.i < st.t.maxSets /\ st.isOptimizing
    THEN {AwaitTest(st, st.t.sets[st.t.i + 1], st.t.i)}
    ELSE standardPhase2(st)

\* the loop of basicOptimization, waiting on cancellation instead of leaving
basicLoopWaits(st) ==
    IF st.t.i < st.t.maxSets
    THEN IF st.isOptimizing THEN {AwaitTest(st, st.t.sets[st.t.i + 1], st.t.i)}
         ELSE {[st EXCEPT !.t.pc = "delay", !.t.i = @ - 1]}
    ELSE {Return(st)}

\* the loop of basicOptimization
basicLoop(st) ==
    IF st.t.i < st.t.maxSets /\ st.isOptimizing
    THEN {AwaitTest(st, st.t.sets[st.t.i + 1], st.t.i)}
    ELSE {Return(st)}

\* the loop the call is in, entered at its condition
Loop(st) ==
    CASE st.t.phase = "grid" /\ st.t.depth = "basic" -> basicLoop(st)
      [] st.t.phase = "grid" /\ st.t.depth = "deep" -> deepLoop1(st)
      [] st.t.phase = "grid" -> standardLoop1(st)
      [] st.t.phase = "fine" -> standardLoop2(st)
      [] st.t.phase = "genetic" -> geneticIndLoop(st)
      [] st.t.phase = "local" -> localNeighborLoop(st)

\* density and share of maxIterations of the grid phase of a profile
GridDensity(depth) == IF depth = "basic" THEN "basic" ELSE "coarse"
\* every profile given the whole of maxIterations for its grid phase
GridBudgetWhole(depth, maxIterations) == maxIterations

GridBudget(depth, maxIterations) ==
    CASE depth = "basic" -> maxIterations
      [] depth = "deep" -> (maxIterations * 3) \div 10
      [] OTHER -> (maxIterations * 6) \div 10

\* basicOptimization, standardOptimization, deepOptimization up to the loop;
\* only the maxSets sets the loop can read are kept
StartProfile(st, parameterSets) ==
    LET maxSets == Min(Len(parameterSets), GridBudget(st.t.depth, st.t.maxIterations))
    IN Then([st EXCEPT !.t.phase = "grid", !.t.tested = 0,
                       !.t.sets = SubSeq(parameterSets, 1, maxSets),
                       !.t.i = 0, !.t.maxSets = maxSets],
            Loop)

\* the object testParameterSet resolves with
testParameterSet(parameters, iteration, score, ref) ==
    [ref |-> ref, iteration |-> iteration, parameters |-> parameters, score |-> score]

\* the statements between the await of testParameterSet and the await of delay
Record(st, result) ==
    LET pushed == [st EXCEPT !.results = Append(@, result), !.nextRef = @ + 1,
                             !.t.pc = "delay",
                             !.t.evalParameters = EmptyObject, !.t.evalIteration = 0]
    IN CASE st.t.phase = "genetic" ->
              [pushed EXCEPT !.t.population[st.t.i + 1].fitness = result.score,
                             !.bestResult = updateBestResult(@, result)]
         [] st.t.phase = "local" ->
              IF result.score > st.t.currentBest.score
              THEN [pushed EXCEPT !.t.iteration = @ + 1,
                                  !.t.currentBest = result, !.t.improved = TRUE,
                                  !.bestResult = updateBestResult(@, result)]
              ELSE [pushed EXCEPT !.t.iteration = @ + 1]
         [] OTHER ->
              [pushed EXCEPT !.bestResult = updateBestResult(@, result)]

\* Math.round((current / total) * 100) when the quotient is not finite
\* (total is 0): Infinity, or NaN for 0 / 0
NotFinite == -1

\* the object updateProgress hands to the callback
ProgressEvent(current, total, best, tracked) ==
    [current |-> current,
     total |-> total,
     percentage |-> IF total = 0 THEN NotFinite ELSE MathRound(current * 100, total),
     bestScore |-> IF best = Null THEN 0 ELSE best.score,
     resultsCount |-> Len(tracked)]

\* updateProgress(current, total): without a callback nothing happens; a
\* registered callback is called, and returns or throws. Nothing between
\* the call and optimize's catch block handles what it throws.
updateProgress(st, current, total) ==
    IF st.progressCallback = Null THEN {st}
    ELSE Let([st EXCEPT !.emitted = Append(@, ProgressEvent(current, total,
                                                            st.bestResult, st.results))],
             LAMBDA called : {called, Catch(called, "callback")})

\* the updateProgress call of the loop the call is in, after Record
Report(st) ==
    CASE st.t.phase = "grid" /\ st.t.depth = "basic" ->
              updateProgress(st, st.t.i + 1, st.t.maxSets)
      [] st.t.phase = "grid" ->
              updateProgress(st, st.t.i + 1, st.t.maxIterations)
      [] st.t.phase = "fine" ->
              updateProgress(st, Len(st.results), st.t.maxIterations)
      [] OTHER ->
              updateProgress(st, Len(st.results), st.currentOptimization.totalIterations)

(***************************************************************************)
(* Actions.                                                                *)
(***************************************************************************)
Init ==
    /\ isOptimizing = FALSE
    /\ currentOptimization = Null
    /\ results = <<>>
    /\ bestResult = Null
    /\ progressCallback = Null
    /\ emitted = <<>>
    /\ returned = <<>>
    /\ nextRef = 1
    /\ calls = [c \in Calls |-> IdleCall]

\* the settings a model run draws from: the budget large enough for a genetic
\* generation goes with the one-valued parameter, the small ones with the
\* two-valued parameter
Inputs ==
    { in \in [parameters : ParameterChoices, maxIterations : IterationChoices,
              optimizationDepth : DepthChoices] :
        in.maxIterations < 5 <=> in.parameters = <<ParamLength>> }

\* the maxIterations settings of the pending calls among 1..c, summed
RECURSIVE PendingIterations(_)
PendingIterations(c) ==
    IF c = 0 THEN 0
    ELSE (IF Pending(calls[c]) THEN calls[c].maxIterations ELSE 0) + PendingIterations(c - 1)

\* A call that has returned keeps what it returned until the next run starts;
\* the engine holds no reference to it, and the objects of the results array
\* it replaces are unreachable once no call is pending, so their references
\* are reused.
Forgotten(call) == [IdleCall EXCEPT !.pc = call.pc, !.error = call.error]

\* throw new Error('Optimization already in progress'): the check stands
\* before the try block, so the catch that clears isOptimizing is not entered
ThrowInsideTry(st) == [st EXCEPT !.isOptimizing = FALSE, !.t.pc = "rejected"]
ThrowInProgress(st) == [st EXCEPT !.t.pc = "rejected"]

\* the first statements of the try block with the tracker left as found
NewRunKeepsResults(in) ==
    [isOptimizing |-> TRUE,
     results |-> results,
     bestResult |-> bestResult,
     currentOptimization |->
         [parameters |-> in.parameters,
          config |-> [maxIterations |-> in.maxIterations,
                      optimizationDepth |-> in.optimizationDepth],
          iteration |-> 0,
          totalIterations |-> calculateTotalIterations(in.parameters, in.maxIterations)],
     progressCallback |-> progressCallback,
     emitted |-> <<>>,
     nextRef |-> nextRef,
     t |-> [IdleCall EXCEPT !.depth = in.optimizationDepth,
                            !.maxIterations = in.maxIterations,
                            !.parameters = in.parameters]]

\* the first statements of the try block: the flag is set, the tracker
\* emptied, config and currentOptimization built
NewRun(in) ==
    [isOptimizing |-> TRUE,
     results |-> <<>>,
     bestResult |-> Null,
     currentOptimization |->
         [parameters |-> in.parameters,
          config |-> [maxIterations |-> in.maxIterations,
                      optimizationDepth |-> in.optimizationDepth],
          iteration |-> 0,
          totalIterations |-> calculateTotalIterations(in.parameters, in.maxIterations)],
     progressCallback |-> progressCallback,
     emitted |-> <<>>,
     nextRef |-> IF \E d \in Calls : Pending(calls[d]) THEN nextRef ELSE 1,
     t |-> [IdleCall EXCEPT !.depth = in.optimizationDepth,
                            !.maxIterations = in.maxIterations,
                            !.parameters = in.parameters]]

\* optimize(parameters, settings), up to its first await or its return
Optimize(c, in) ==
    /\ calls[c].pc = "idle"
    /\ \A d \in 1..(c - 1) : calls[d].pc # "idle"
    /\ IF isOptimizing
       THEN \E next \in {ThrowInProgress(Frame(c))} : Commit(c, next)
       ELSE LET st == NewRun(in)
            IN /\ (\E d \in Calls : Pending(calls[d]))
                    => PendingIterations(MaxCalls) + in.maxIterations <= MaxOverlapIterations
               /\ \E parameterSets \in generateParameterSets(in.parameters,
                                                          GridDensity(in.optimizationDepth)) :
                 \E next \in UNION { StartProfile(frame, parameterSets) : frame \in {st} } :
                    /\ isOptimizing' = next.isOptimizing
                    /\ currentOptimization' = next.currentOptimization
                    /\ results' = next.results
                    /\ bestResult' = next.bestResult
                    /\ progressCallback' = next.progressCallback
                    /\ emitted' = next.emitted
                    /\ returned' = <<>>
                    /\ nextRef' = next.nextRef
                    /\ calls' = [d \in Calls |->
                                   IF d = c THEN next.t
                                   ELSE IF Pending(calls[d]) THEN calls[d]
                                   ELSE Forgotten(calls[d])]

\* the evaluator call of c resolves with a score; its result is recorded
EvalComplete(c, score) ==
    /\ calls[c].pc = "eval"
    /\ \E result \in {testParameterSet(calls[c].evalParameters, calls[c].evalIteration,
                                         score, nextRef)} :
         \E next \in Then(Record(Frame(c), result), Report) : Commit(c, next)

\* the pacing delay of c resolves; the loop goes on to its next await
DelayDone(c) ==
    /\ calls[c].pc = "delay"
    /\ \E next \in Then([Frame(c) EXCEPT !.t.i = @ + 1], Loop) : Commit(c, next)

\* a stop() that also empties the tracker
StopResetsTracker ==
    /\ isOptimizing' = FALSE
    /\ results' = <<>>
    /\ bestResult' = Null
    /\ calls' = [c \in Calls |-> IF Pending(calls[c]) THEN [calls[c] EXCEPT !.stopped = TRUE]
                                 ELSE calls[c]]
    /\ emitted' = <<>>
    /\ returned' = <<>>
    /\ UNCHANGED <<currentOptimization, progressCallback, nextRef>>

\* stop()
Stop ==
    /\ isOptimizing' = FALSE
    /\ calls' = [c \in Calls |-> IF Pending(calls[c]) THEN [calls[c] EXCEPT !.stopped = TRUE]
                                 ELSE calls[c]]
    /\ emitted' = <<>>
    /\ returned' = <<>>
    /\ UNCHANGED <<currentOptimization, results, bestResult, progressCallback, nextRef>>

\* the callbacks a host registers: none, or a function
Observer == [callback |-> TRUE]
CallbackChoices == {Null, Observer}

\* setProgressCallback(callback)
SetProgressCallback(callback) ==
    /\ progressCallback' = callback
    /\ emitted' = <<>>
    /\ returned' = <<>>
    /\ UNCHANGED <<isOptimizing, currentOptimization, results, bestResult, nextRef, calls>>

Next ==
    \/ \E c \in Calls, in \in Inputs : Optimize(c, in)
    \/ \E c \in Calls, score \in Scores : EvalComplete(c, score)
    \/ \E c \in Calls : DelayDone(c)
    \/ Stop

\* the engine as constructed: no progress callback is registered
Spec == Init /\ [][Next]_vars

\* the timers behind the awaited evaluator calls and pacing delays fire:
\* while a call awaits one, some awaited timer eventually resolves
Resume == \E c \in Calls : (\E score \in Scores : EvalComplete(c, score)) \/ DelayDone(c)

Fairness == WF_vars(Resume)

FairSpec == Spec /\ Fairness

\* a caller that awaits each optimize() call before making the next one
SerialNext ==
    \/ \E c \in Calls, in \in Inputs :
          /\ \A d \in Calls : ~Pending(calls[d])
          /\ Optimize(c, in)
    \/ \E c \in Calls, score \in Scores : EvalComplete(c, score)
    \/ \E c \in Calls : DelayDone(c)
    \/ Stop

SerialSpec == Init /\ [][SerialNext]_vars

\* the engine with a host that registers and removes a progress callback
ObservedNext ==
    \/ Next
    \/ \E callback \in CallbackChoices : SetProgressCallback(callback)

ObservedSpec == Init /\ [][ObservedNext]_vars

\* a host that hands optimize() a definition with min > max
MalformedInputs ==
    [parameters : {<<ParamMalformed>>}, maxIterations : {1, 4},
     optimizationDepth : DepthChoices]

MalformedNext ==
    \/ \E c \in Calls, in \in MalformedInputs : Optimize(c, in)
    \/ \E c \in Calls, score \in Scores : EvalComplete(c, score)
    \/ \E c \in Calls : DelayDone(c)
    \/ Stop

MalformedSpec == Init /\ [][MalformedNext]_vars

\* The evaluator of the design is an injected function that may reject; the
\* testParameterSet of the source is a simulation that never does. Here the
\* awaited call of c rejects: the await throws inside optimize's try block.
EvalRejects(c) ==
    /\ calls[c].pc = "eval"
    /\ \E next \in {Catch(Frame(c), "evaluator")} : Commit(c, next)

\* the engine with an evaluator that may reject
EvaluatorNext ==
    \/ Next
    \/ \E c \in Calls : EvalRejects(c)

EvaluatorSpec == Init /\ [][EvaluatorNext]_vars

\* the definitions and densities the generator is called with directly
ParamStep == [name |-> "a", type |-> "integer", min |-> 0, max |-> 2, step |-> 1]
ParamExample == [name |-> "length", type |-> "integer", min |-> 5, max |-> 50, step |-> 1]
ParamFlag == [name |-> "b", type |-> "boolean"]
ParamSwitch == [name |-> "c", type |-> "boolean"]
\* seven booleans and four integers of three values: 2^7 * 3^4 = 10368
\* combinations at every density
FlagNames == <<"f1", "f2", "f3", "f4", "f5", "f6", "f7">>
StepNames == <<"s1", "s2", "s3", "s4">>
ManyChoices ==
    [k \in 1..Len(FlagNames) |-> [name |-> FlagNames[k], type |-> "boolean"]]
    \o [k \in 1..Len(StepNames) |-> [ParamStep EXCEPT !.name = StepNames[k]]]
\* four integers of ten values: 10^4 combinations at density "fine"
DigitNames == <<"d1", "d2", "d3", "d4">>
ManyDigits ==
    [k \in 1..Len(DigitNames) |->
       [name |-> DigitNames[k], type |-> "integer", min |-> 0, max |-> 9, step |-> 1]]

GeneratorParameterChoices ==
    {<<>>, <<ParamFixed>>, <<ParamLength>>, <<ParamStep>>, <<ParamExample>>, <<ParamFlag>>,
     <<ParamFlag, ParamSwitch>>, <<ParamLength, ParamFlag>>, ManyChoices, ManyDigits}

\* the four levels of densityMap and one it does not list
DensityChoices == {"basic", "coarse", "standard", "fine", "dense"}

\* the host calls again what it called first, with the same arguments
Repeats(method, arguments) ==
    returned # <<>> => returned[1].method = method /\ returned[1].arguments = arguments

DirectCall(method, arguments, value) ==
    /\ returned' = Append(returned, [method |-> method, arguments |-> arguments,
                                     value |-> value])
    /\ emitted' = <<>>
    /\ UNCHANGED <<isOptimizing, currentOptimization, results, bestResult, progressCallback,
                   nextRef, calls>>

\* generateParameterSets(parameters, density) called on the engine
GenerateParameterSets(parameters, density) ==
    /\ Len(returned) < MaxDirectCalls
    /\ Repeats("generateParameterSets", <<parameters, density>>)
    /\ \E sets \in generateParameterSets(parameters, density) :
          DirectCall("generateParameterSets", <<parameters, density>>, sets)

\* generateParameterSteps(param, stepCount) called on the engine
GenerateParameterSteps(param, stepCount) ==
    /\ Len(returned) < MaxDirectCalls
    /\ Repeats("generateParameterSteps", <<param, stepCount>>)
    /\ DirectCall("generateParameterSteps", <<param, stepCount>>,
                  generateParameterSteps(param, stepCount))

GeneratorNext ==
    \/ \E parameters \in GeneratorParameterChoices, density \in DensityChoices :
          GenerateParameterSets(parameters, density)
    \/ \E parameters \in GeneratorParameterChoices :
          \E k \in 1..Len(parameters), density \in DensityChoices :
             GenerateParameterSteps(parameters[k], densityMap(density))

GeneratorSpec == Init /\ [][GeneratorNext]_vars

\* compileResults() called by the host on the engine once no run is pending;
\* it reads currentOptimization.startTime, so a run has been started. What
\* calculateImprovement throws reaches the host: the call returns nothing.
CompileResults ==
    /\ \A c \in Calls : ~Pending(calls[c])
    /\ currentOptimization # Null
    /\ Len(returned) < MaxDirectCalls
    /\ returned' = Append(returned, IF compileResultsThrows(results, bestResult) THEN Null
                                    ELSE compileResults(results, bestResult))
    /\ results' = SortByScore(results)
    /\ emitted' = <<>>
    /\ UNCHANGED <<isOptimizing, currentOptimization, bestResult, progressCallback,
                   nextRef, calls>>

\* the engine with a host that asks for the summary again after a run
TrackerNext ==
    \/ Next
    \/ CompileResults

TrackerSpec == Init /\ [][TrackerNext]_vars

\* a definition of five values: every value is a sample at density "coarse"
ParamRange == [name |-> "a", type |-> "integer", min |-> 0, max |-> 4, step |-> 1]

\* runs whose candidate supply and budget differ: a Basic run of the
\* definition length (5..50) with maxIterations 20, whose grid has 3
\* candidates, and a Standard run with maxIterations 10, whose grid has 5
\* candidates for an allotment of 6
ProfileInputs ==
    {[parameters |-> <<ParamExample>>, maxIterations |-> 20, optimizationDepth |-> "basic"],
     [parameters |-> <<ParamRange>>, maxIterations |-> 10, optimizationDepth |-> "standard"]}

ProfileNext ==
    \/ \E c \in Calls, in \in ProfileInputs : Optimize(c, in)
    \/ \E c \in Calls, score \in Scores : EvalComplete(c, score)
    \/ \E c \in Calls : DelayDone(c)
    \/ Stop

ProfileSpec == Init /\ [][ProfileNext]_vars

\* Deep runs of the one-valued definition with genetic budgets
\* floor(0.4 * maxIterations) of 9 (no generation), 10 (one generation of
\* 10), 50 (five of 10), 75 (five of 15) and 100 (five of 20)
GeneticIterationChoices == {24, 25, 125, 188, 250}

GeneticInputs ==
    [parameters : {<<ParamFixed>>}, maxIterations : GeneticIterationChoices,
     optimizationDepth : {"deep"}]

\* the evaluator call of c resolves, with an evaluator whose scores do not
\* decrease from one call to the next
EvalCompleteNotBelow(c, score) ==
    /\ IF bestResult = Null THEN TRUE ELSE score >= bestResult.score
    /\ EvalComplete(c, score)

\* the host makes one optimize() call
GeneticNext ==
    \/ \E in \in GeneticInputs : Optimize(1, in)
    \/ \E c \in Calls, score \in Scores : EvalCompleteNotBelow(c, score)
    \/ \E c \in Calls : DelayDone(c)
    \/ Stop

GeneticSpec == Init /\ [][GeneticNext]_vars

\* the offspring evolvePopulation hands to mutate: genes of a numeric and a
\* boolean definition, as crossover builds them from parents within bounds
MutateParameters == <<ParamLength, ParamFlag>>
OffspringChoices == [a : ParamLength.min..ParamLength.max, b : BOOLEAN]

\* mutate(individual, parameters) called on the engine
Mutate(individual, parameters) ==
    /\ returned = <<>>
    /\ \E outcome \in mutateDraws(individual, parameters) :
          DirectCall("mutate", <<individual, parameters>>, outcome)

\* populations of the smallest size the genetic phase builds, as they are
\* when evolvePopulation is called: the individuals evaluated so far come
\* first, those from position hi on with the higher fitness, and the ones a
\* stop left unevaluated follow with fitness unset
PopulationChoices ==
    { [k \in 1..10 |->
         [genes |-> [a |-> k % 2],
          fitness |-> IF k > known THEN NullFitness
                      ELSE IF k >= hi THEN MaxScore ELSE 0]] :
        known \in {0, 1, 5, 10}, hi \in 1..11 }

\* evolvePopulation(population, parameters) called on the engine
EvolvePopulation(population, parameters) ==
    /\ returned = <<>>
    /\ \E next \in evolvePopulation(population, parameters) :
          DirectCall("evolvePopulation", <<population, parameters>>, next)

\* the definitions generateFineParameterSets is called with, and the top
\* results of a run over them: up to three results, best first
ParamOther == [ParamStep EXCEPT !.name = "s"]
FineParameterChoices == {<<ParamRange>>, <<ParamLength, ParamFlag>>, <<ParamRange, ParamOther>>}
TopResultChoices(parameters) ==
    { [k \in 1..n |-> testParameterSet(tested[k], k - 1, IF k = 1 THEN MaxScore ELSE 0, k)] :
        n \in 0..3, tested \in [1..3 -> RandomIndividuals(parameters)] }

\* generateFineParameterSets(topResults, parameters) called on the engine
GenerateFineParameterSets(topResults, parameters) ==
    /\ returned = <<>>
    /\ DirectCall("generateFineParameterSets", <<topResults, parameters>>,
                  generateFineParameterSets(topResults, parameters))

\* the host calls one of the helpers of the later phases
HelperNext ==
    \/ \E individual \in OffspringChoices : Mutate(individual, MutateParameters)
    \/ \E population \in PopulationChoices : EvolvePopulation(population, <<ParamLength>>)
    \/ \E parameters \in FineParameterChoices :
          \E topResults \in TopResultChoices(parameters) :
             GenerateFineParameterSets(topResults, parameters)

HelperSpec == Init /\ [][HelperNext]_vars

(***************************************************************************)
(* Properties.                                                             *)
(***************************************************************************)
PendingCalls == { c \in Calls : Pending(calls[c]) }

\* the step is an optimize() call that was accepted and began a run
RunStarted == \E c \in Calls : calls[c].pc = "idle" /\ calls'[c].pc \notin {"idle", "rejected"}

\* the score of the best pointer, null counting below every score
BestScore(result) == IF result = Null THEN -1 ELSE result.score

\* best is what a tracker holding exactly the array tracked has as its best:
\* null for the empty array, otherwise the earliest result of maximal score
IsBestOf(best, tracked) ==
    IF tracked = <<>> THEN best = Null
    ELSE /\ best # Null
         /\ Includes(tracked, best)
         /\ \A k \in 1..Len(tracked) :
              \/ tracked[k].score < best.score
              \/ tracked[k].score = best.score /\ tracked[k].ref >= best.ref

\* C1: at most one run is active per engine instance: no optimize() call is
\* accepted while an earlier call has not returned, also after stop().
C1_AtMostOneActiveRun == Cardinality(PendingCalls) <= 1

\* C2: once stop() was called during a run, that run starts no further
\* evaluator call: from its pacing delay it never goes on to an evaluation.
C2_NoEvaluationAfterStop ==
    [][\A c \in Calls :
         calls[c].stopped /\ calls[c].pc = "delay" => calls'[c].pc # "eval"]_vars

\* C3: the cancellation of a run is write-once: while a run that stop()
\* cancelled is still executing, nothing sets isOptimizing again.
C3_CancellationWriteOnce ==
    [][\A c \in Calls :
         calls[c].stopped /\ Pending(calls[c]) /\ ~isOptimizing => ~isOptimizing']_vars

\* C4: the evaluator call in flight when stop() is called completes, and its
\* result is appended to results and put to the best pointer's update.
C4_InFlightResultRecorded ==
    [][\A c \in Calls :
         calls[c].stopped /\ calls[c].pc = "eval" /\ calls'[c].pc # "eval" =>
            /\ Len(results') = Len(results) + 1
            /\ results' = Append(results, results'[Len(results')])
            /\ results'[Len(results')].parameters = calls[c].evalParameters
            /\ bestResult' = updateBestResult(bestResult, results'[Len(results')])
            /\ calls'[c].pc = "delay"]_vars

\* C5: an optimize() call rejected because a run is active throws at once and
\* leaves isOptimizing, results, bestResult and currentOptimization as they
\* were; the active run is not cancelled and no other call is touched.
C5_RejectionLeavesStateUntouched ==
    [][\A c \in Calls :
         calls[c].pc = "idle" /\ calls'[c].pc = "rejected" =>
            /\ isOptimizing /\ isOptimizing'
            /\ UNCHANGED <<results, bestResult, currentOptimization, nextRef>>
            /\ \A d \in Calls \ {c} : calls'[d] = calls[d]]_vars

C5_Witness ==
    \E c, d \in Calls :
        /\ calls[c].pc = "rejected"
        /\ calls[d].pc = "eval" /\ ~calls[d].stopped
        /\ isOptimizing /\ Len(results) > 0

\* C6: a run on which stop() was called resolves with the summary of
\* compileResults: totalTests is the number of evaluations recorded and
\* bestResult is the best of exactly those evaluations.
C6_CancelledRunResolves ==
    [][\A c \in Calls :
         calls[c].stopped /\ Pending(calls[c]) /\ ~Pending(calls'[c]) =>
            /\ calls'[c].pc = "done"
            /\ calls'[c].summary.success
            /\ calls'[c].summary.totalTests = Len(results')
            /\ IsBestOf(calls'[c].summary.bestResult, results')]_vars

\* C7: as evaluations are recorded the best score never decreases, and the
\* best pointer is replaced only by a result of strictly greater score; only
\* the start of a new run resets it.
C7_MonotonicBest ==
    [][~RunStarted =>
         \/ bestResult' = bestResult
         \/ bestResult' # Null /\ BestScore(bestResult') > BestScore(bestResult)]_vars

\* a later result tied with the best pointer and did not displace it
C7_Witness ==
    /\ bestResult # Null
    /\ \E k \in 1..Len(results) :
         results[k].score = bestResult.score /\ results[k].ref > bestResult.ref

\* C8: bestResult is null iff results is empty, and otherwise it is the
\* element of results of maximal score that completed earliest.
C8_BestIsEarliestMaximum == IsBestOf(bestResult, results)

\* C9: at every point of a run results.length <= config.maxIterations.
C9_BudgetRespected ==
    currentOptimization # Null => Len(results) <= currentOptimization.config.maxIterations

\* C10: every run terminates: a call awaiting an evaluation or a pacing delay
\* eventually returns its summary or rejects.
C10_EveryRunTerminates ==
    \A c \in Calls : Pending(calls[c]) ~> calls[c].pc \in {"done", "failed"}

\* a Deep run returned after its grid, genetic and local-search phases
C10_Witness ==
    \E c \in Calls :
        /\ calls[c].pc = "done"
        /\ calls[c].depth = "deep"
        /\ calls[c].summary.totalTests >= 10

\* C11: results is append-only and kept in completion order throughout a
\* run: an entry at position k stays at position k; only the start of a run
\* replaces the array.
C11_ResultsAppendOnly ==
    [][~RunStarted =>
         /\ Len(results') >= Len(results)
         /\ \A k \in 1..Len(results) : results'[k] = results[k]]_vars

\* the result of the evaluation that completed first in the run: iteration 0
FirstCompleted(tracked) == tracked[CHOOSE k \in 1..Len(tracked) : tracked[k].iteration = 0]

\* the fractions a and b are the same number, n / 0 being an infinity or NaN
SameQuotient(a, b) ==
    IF a.den = 0 \/ b.den = 0
    THEN a.den = 0 /\ b.den = 0 /\ a.num = b.num
    ELSE a.num * b.den = b.num * a.den

\* C12: for a run with at least 2 evaluations the summary's improvement is
\* (bestScore - firstCompletedScore) / firstCompletedScore * 100, where
\* firstCompletedScore is the score of the evaluation with iteration 0.
C12_ImprovementOverFirstEvaluation ==
    \A c \in Calls :
        calls[c].pc = "done" /\ calls[c].summary # Null /\ calls[c].summary.totalTests >= 2 =>
            SameQuotient(calls[c].summary.summary.improvement,
                         [num |-> (calls[c].summary.summary.bestScore
                                     - FirstCompleted(results).score) * 100,
                          den |-> FirstCompleted(results).score])

\* C13: compileResults called again on a finished run, with no evaluation in
\* between, returns what the run's own compileResults returned and what the
\* call before it returned (totalTests, bestResult, topResults, summary), and
\* leaves results and bestResult as they were.
C13_IdempotentSummary ==
    [][Len(returned') > Len(returned) =>
         /\ results' = results
         /\ bestResult' = bestResult
         /\ returned # <<>> => returned'[Len(returned')] = returned[Len(returned)]
         /\ \E c \in Calls :
              /\ calls[c].pc \in {"done", "failed"}
              /\ calls[c].summary = returned'[Len(returned')]]_vars

\* compileResults was called twice on a run whose first completed evaluation
\* was not its best one
C13_Witness ==
    /\ Len(returned) = 2
    /\ returned[2] # Null
    /\ Len(results) >= 2
    /\ results[1].iteration # 0

\* the greatest score among the results recorded
MaxScoreOf(tracked) ==
    CHOOSE m \in { tracked[k].score : k \in 1..Len(tracked) } :
        \A k \in 1..Len(tracked) : tracked[k].score <= m

\* C14: after every evaluation, in every phase, progress is reported exactly
\* once and after the result was recorded: resultsCount is the number of
\* evaluations completed so far and bestScore the greatest score recorded so
\* far; with no observer registered the evaluation goes on the same way and
\* nothing is thrown.
C14_ProgressAfterEveryEvaluation ==
    [][\A c \in Calls :
         calls[c].pc = "eval" /\ calls'[c].pc # "eval" =>
            /\ results' = Append(results, results'[Len(results')])
            /\ IF progressCallback = Null
               THEN emitted' = <<>> /\ calls'[c].pc = "delay"
               ELSE /\ Len(emitted') = 1
                    /\ emitted'[1].resultsCount = Len(results')
                    /\ emitted'[1].bestScore = MaxScoreOf(results')]_vars

\* C15: an error thrown by the registered progress callback does not abort
\* the run: no optimize() call rejects with what the callback threw.
C15_CallbackErrorDoesNotAbort ==
    \A c \in Calls : calls[c].error # "callback"

Malformed(param) == param.type # "boolean" /\ param.min > param.max

\* C17: a numeric definition with min > max is handled at generator time:
\* its bounds are defaulted or optimize() fails before any evaluation; no
\* candidate whose value was built from the malformed bounds is handed to
\* the evaluator.
C17_MalformedBoundsNotEvaluated ==
    \A c \in Calls :
        calls[c].pc = "eval" =>
            \A k \in 1..Len(calls[c].parameters) :
                Malformed(calls[c].parameters[k]) =>
                    calls[c].evalParameters[calls[c].parameters[k].name]
                        \notin calls[c].parameters[k].max..calls[c].parameters[k].min

\* what the direct calls of a method returned, with their arguments
Returned(method) ==
    { returned[k] : k \in { j \in 1..Len(returned) : returned[j].method = method } }

\* how often candidate occurs in the array
Occurrences(array, candidate) == Cardinality({ k \in 1..Len(array) : array[k] = candidate })

\* the arrays hold the same candidates, each as often
SameCandidates(a, b) ==
    \/ a = b
    \/ /\ Len(a) = Len(b)
       /\ \A k \in 1..Len(a) : Occurrences(a, a[k]) = Occurrences(b, a[k])

\* the candidates generateParameterSets enumerates before it shuffles them
Enumerated(parameters, density) ==
    generateCombinations(parameters, densityMap(density), 1, EmptyObject, <<>>)

\* C18: for fixed definitions and density any two invocations of
\* generateParameterSets return the same candidates whatever the shuffle
\* draws; only the order differs: the shuffle returns a permutation of the
\* generated candidates, adding or losing none.
C18_SameCandidatesInAnyOrder ==
    \A first, second \in Returned("generateParameterSets") :
        first.arguments = second.arguments =>
            /\ SameCandidates(first.value, second.value)
            /\ SameCandidates(first.value, Enumerated(first.arguments[1], first.arguments[2]))
            /\ Len(first.value) <= MaxShuffled => first.value \in Orders(second.value)

\* two invocations with the same arguments returned different orders
C18_Witness ==
    /\ Len(returned) = 2
    /\ returned[1].method = "generateParameterSets"
    /\ returned[1].value # returned[2].value
    /\ Len(returned[1].value) = 3

\* the definitions have unique names and no numeric one has min > max
WellFormed(parameters) ==
    /\ \A j, k \in 1..Len(parameters) : j # k => parameters[j].name # parameters[k].name
    /\ \A k \in 1..Len(parameters) : ~Malformed(parameters[k])

\* value is of the declared type and, for a numeric definition, within bounds
ValueFits(param, value) ==
    IF param.type = "boolean" THEN value \in BOOLEAN
    ELSE value \in Int /\ param.min <= value /\ value <= param.max

NoTwoEqual(array) == Cardinality({ array[k] : k \in 1..Len(array) }) = Len(array)

RECURSIVE Product(_, _)
Product(parameters, stepsPerParam) ==
    IF parameters = <<>> THEN 1
    ELSE Len(generateParameterSteps(Head(parameters), stepsPerParam))
           * Product(Tail(parameters), stepsPerParam)

\* C20: generateParameterSets never returns more than 10,000 candidates,
\* for any number of parameters and any density; when the full Cartesian
\* product is larger, the enumeration stops when the count reaches 10,000
\* and what was produced (candidates of the product) is returned.
C20_CandidateCeiling ==
    \A call \in Returned("generateParameterSets") :
        /\ Len(call.value) <= CombinationLimit
        /\ Len(call.value) = Min(Product(call.arguments[1], densityMap(call.arguments[2])),
                                 CombinationLimit)
        /\ \A p \in 1..Len(call.arguments[1]) :
             \A sample \in { call.value[k][call.arguments[1][p].name] :
                                k \in 1..Len(call.value) } :
                Includes(generateParameterSteps(call.arguments[1][p],
                                                densityMap(call.arguments[2])), sample)

\* the full product was larger than the ceiling
C20_Witness ==
    \E call \in Returned("generateParameterSets") :
        /\ Product(call.arguments[1], densityMap(call.arguments[2])) > CombinationLimit
        /\ Len(call.value) = CombinationLimit

\* the definitions are booleans of different names
BooleanOnly(parameters) ==
    /\ \A k \in 1..Len(parameters) : parameters[k].type = "boolean"
    /\ \A j, k \in 1..Len(parameters) : j # k => parameters[j].name # parameters[k].name

\* C21: a boolean parameter is sampled as exactly true and false at every
\* density, so for two boolean-only parameters generateParameterSets returns
\* exactly the 4 candidates of the 2x2 Cartesian product, whatever the
\* density.
C21_BooleansSampledBoth ==
    /\ \A call \in Returned("generateParameterSteps") :
          call.arguments[1].type = "boolean" =>
             /\ Len(call.value) = 2
             /\ { call.value[k] : k \in 1..2 } = BOOLEAN
    /\ \A call \in Returned("generateParameterSets") :
          BooleanOnly(call.arguments[1]) /\ Len(call.arguments[1]) = 2 =>
             /\ Len(call.value) = 4
             /\ { call.value[k] : k \in 1..Len(call.value) }
                   = [{call.arguments[1][1].name, call.arguments[1][2].name} -> BOOLEAN]

\* the candidates of two booleans were generated at the lowest density
C21_Witness ==
    \E call \in Returned("generateParameterSets") :
        /\ call.arguments = <<(<<ParamFlag, ParamSwitch>>), "basic">>
        /\ Len(call.value) = 4

\* C22: a Basic run on which stop() was not called evaluates exactly
\* min(number of generated candidates, maxIterations) candidates, each
\* generated candidate at most once, and the bestResult of its summary is one
\* of the candidates it evaluated.
C22_BasicEvaluatesEachCandidateOnce ==
    [][\A c \in Calls :
         /\ calls[c].depth = "basic" /\ Pending(calls[c]) /\ ~calls[c].stopped
         /\ calls'[c].pc = "done"
         => /\ calls[c].tested = Min(Product(calls[c].parameters, densityMap("basic")),
                                     calls[c].maxIterations)
            /\ NoTwoEqual(SubSeq(calls[c].sets, 1, calls[c].tested))
            /\ calls'[c].summary.totalTests = calls[c].tested
            /\ calls'[c].summary.bestResult # Null
            /\ Includes(SubSeq(calls[c].sets, 1, calls[c].tested),
                        calls'[c].summary.bestResult.parameters)]_vars

\* C23: stop() only clears isOptimizing: it leaves results, bestResult,
\* currentOptimization and the position and locals of every call as they
\* were, so that on an engine whose flag is clear (idle, or stopped already)
\* it changes nothing. A step in which no call moves is a stop().
C23_StopOnlyClearsFlag ==
    [][(\A c \in Calls : calls'[c].pc = calls[c].pc) =>
          /\ ~isOptimizing'
          /\ ~isOptimizing => isOptimizing' = isOptimizing
          /\ UNCHANGED <<results, bestResult, currentOptimization, progressCallback, nextRef>>
          /\ \A c \in Calls : [calls'[c] EXCEPT !.stopped = calls[c].stopped] = calls[c]]_vars

\* stop() was called during a run that had recorded results
C23_Witness ==
    \E c \in Calls :
        /\ Pending(calls[c]) /\ calls[c].stopped
        /\ ~isOptimizing
        /\ results # <<>> /\ bestResult # Null

\* C24: for optimize() calls made one after another, every run starts with
\* empty results and null bestResult, every result recorded afterwards is
\* the result of an evaluation of that run, and the totalTests, bestResult
\* and topResults of its summary are taken from those results.
C24_NoStateAcrossRuns ==
    [][/\ RunStarted => results' = <<>> /\ bestResult' = Null
       /\ ~RunStarted =>
            \A k \in 1..Len(results') :
                \/ Includes(results, results'[k])
                \/ \E c \in Calls :
                      /\ calls[c].pc = "eval"
                      /\ results'[k].parameters = calls[c].evalParameters
                      /\ results'[k].iteration = calls[c].evalIteration
       /\ \A c \in Calls :
            Pending(calls[c]) /\ calls'[c].pc = "done" =>
                /\ calls'[c].summary.totalTests = Len(results')
                /\ calls'[c].summary.bestResult = bestResult'
                /\ Includes(results', bestResult')
                /\ \A k \in 1..Len(calls'[c].summary.topResults) :
                      Includes(results', calls'[c].summary.topResults[k])]_vars

\* a second run returned a summary of one evaluation after a first run had
\* returned
C24_Witness ==
    /\ calls[1].pc = "done"
    /\ calls[2].pc = "done"
    /\ calls[2].summary.totalTests = 1

\* C25: at most one evaluator call is in flight on the engine at any time,
\* in every interleaving of optimize(), stop() and the completions: no
\* evaluation starts before the result of the one before it is in results.
C25_OneEvaluationInFlight ==
    Cardinality({ c \in Calls : calls[c].pc = "eval" }) <= 1

\* C26: in the Standard profile the grid phase makes at most
\* floor(0.6 * maxIterations) evaluations, and the refinement phase at most
\* maxIterations - floor(0.6 * maxIterations), also when the grid phase ran
\* out of candidates before it had used its allotment.
C26_StandardBudgetForfeited ==
    \A c \in Calls :
        calls[c].depth = "standard" =>
            /\ calls[c].phase = "grid" =>
                  calls[c].tested <= (calls[c].maxIterations * 6) \div 10
            /\ calls[c].phase = "fine" =>
                  calls[c].tested <= calls[c].maxIterations
                                       - (calls[c].maxIterations * 6) \div 10

\* C27: in the Deep profile the grid phase makes at most
\* floor(0.3 * maxIterations) evaluations, the genetic phase at most
\* floor(0.4 * maxIterations), whatever the grid phase left unused, and the
\* local-search phase at most maxIterations minus the number of results
\* recorded when it starts.
C27_DeepPhaseBudgets ==
    [][\A c \in Calls :
         calls'[c].depth = "deep" =>
            /\ calls'[c].phase = "grid" =>
                  calls'[c].tested <= (calls'[c].maxIterations * 3) \div 10
            /\ calls'[c].phase = "genetic" =>
                  calls'[c].tested <= (calls'[c].maxIterations * 4) \div 10
            /\ calls'[c].phase = "local" /\ calls[c].phase # "local" =>
                  calls'[c].iterations = calls'[c].maxIterations - Len(results')
            /\ calls'[c].phase = "local" =>
                  calls'[c].tested <= calls'[c].iterations]_vars

\* a genetic phase has used the whole of its 40%, after a grid phase that
\* had one candidate for its 30%
C27_Witness ==
    \E c \in Calls :
        /\ calls[c].depth = "deep" /\ calls[c].phase = "genetic"
        /\ calls[c].tested = (calls[c].maxIterations * 4) \div 10
        /\ calls[c].tested > 0

\* the place of a phase in its profile: grid, then refinement or genetic,
\* then local search
PhaseOrder(phase) ==
    CASE phase = "grid" -> 1
      [] phase \in {"fine", "genetic"} -> 2
      [] phase = "local" -> 3
      [] OTHER -> 0

\* C28: the phases of a run follow one another and none is gone back to;
\* local search is entered only when bestResult exists; and when a call
\* resumes from its pacing delay and finds isOptimizing false, it enters no
\* further phase and starts no evaluation: it goes on to compileResults and
\* returns in that step.
C28_PhasesInSequence ==
    [][\A c \in Calls :
         /\ Pending(calls[c]) /\ Pending(calls'[c]) =>
               PhaseOrder(calls'[c].phase) >= PhaseOrder(calls[c].phase)
         /\ calls'[c].phase = "local" /\ calls[c].phase # "local" => bestResult' # Null
         /\ calls[c].pc = "delay" /\ calls'[c].pc # "delay" /\ ~isOptimizing =>
               /\ calls'[c].pc \in {"done", "failed"}
               /\ Len(results') = Len(results)]_vars

\* a Deep run with a budget for all three phases returned after its first
\* evaluation because stop() was called
C28_Witness ==
    \E c \in Calls :
        /\ calls[c].pc = "done" /\ calls[c].stopped
        /\ calls[c].depth = "deep" /\ calls[c].maxIterations = 25
        /\ calls[c].summary.totalTests = 1

\* the budget deepOptimization gives the genetic phase of a run
GeneticBudget(call) == (call.maxIterations * 4) \div 10

\* C29: in the genetic phase with budget iterations the population has
\* min(20, max(10, floor(iterations / 5))) individuals in every generation,
\* at most floor(iterations / populationSize) generations run, and at most
\* iterations evaluations are made; with iterations < 10 there is no
\* generation and no evaluation.
C29_GeneticPopulationAndBudget ==
    \A c \in Calls :
        calls[c].phase = "genetic" =>
            /\ GeneticBudget(calls[c]) >= 10
            /\ Len(calls[c].population)
                  = Min(20, Max(10, GeneticBudget(calls[c]) \div 5))
            /\ calls[c].gen < GeneticBudget(calls[c]) \div Len(calls[c].population)
            /\ calls[c].tested <= GeneticBudget(calls[c])

\* the fifth generation of a phase with budget 50 made the 50th evaluation
C29_Witness ==
    \E c \in Calls :
        /\ calls[c].phase = "genetic" /\ calls[c].pc = "delay"
        /\ GeneticBudget(calls[c]) = 50
        /\ Len(calls[c].population) = 10
        /\ calls[c].gen = 4
        /\ calls[c].tested = 50

\* C30: in a genetic generation only individuals whose fitness is unset are
\* handed to the evaluator: an individual whose fitness is known, seeded from
\* a result or kept as an elite, is not evaluated again, whatever its score,
\* 0 included.
C30_OnlyUnsetFitnessEvaluated ==
    \A c \in Calls :
        calls[c].phase = "genetic" /\ calls[c].pc = "eval" =>
            calls[c].population[calls[c].i + 1].fitness = NullFitness

\* the names of the definitions
NamesOf(parameters) == { parameters[k].name : k \in 1..Len(parameters) }

\* C31: a mutation that is triggered for an offspring re-draws every parameter
\* of the offspring: generateRandomValue is called for each definition, and no
\* parameter keeps the value it got from crossover by being skipped.
C31_MutationRedrawsEveryParameter ==
    \A call \in Returned("mutate") :
        call.value.redrawn = NamesOf(call.arguments[2])

\* the highest fitness known in the population, an unset fitness counting
\* below every score
HighestFitness(population) ==
    CHOOSE f \in { population[k].fitness : k \in 1..Len(population) } :
        \A k \in 1..Len(population) : population[k].fitness <= f

\* how many individuals of the population have a fitness above f
FitterThan(population, f) ==
    Cardinality({ k \in 1..Len(population) : population[k].fitness > f })

\* C32: evolvePopulation returns a population of the same size whose first
\* floor(0.2 * size) members are the individuals of highest fitness of the
\* population it was given, genes and fitness unchanged, and whose other
\* members are offspring with fitness unset; so the highest fitness known in
\* the population does not decrease from one generation to the next.
C32_ElitismKeepsTheFittest ==
    \A call \in Returned("evolvePopulation") :
        LET old == call.arguments[1]
            new == call.value
            kept == (2 * Len(old)) \div 10
        IN /\ Len(new) = Len(old)
           /\ \A k \in 1..kept :
                 /\ Occurrences(SubSeq(new, 1, kept), new[k]) <= Occurrences(old, new[k])
                 /\ FitterThan(old, new[k].fitness) < k
           /\ \A k \in (kept + 1)..Len(new) :
                 /\ new[k].fitness = NullFitness
                 /\ new[k].genes \in RandomIndividuals(call.arguments[2])
           /\ HighestFitness(new) >= HighestFitness(old)

\* the two fittest individuals stood last in the population and lead the
\* next generation, followed by eight offspring
C32_Witness ==
    \E call \in Returned("evolvePopulation") :
        /\ call.arguments[1][1].fitness = 0
        /\ call.arguments[1][9].fitness = MaxScore
        /\ call.arguments[1][10].fitness = MaxScore
        /\ call.value[1] = call.arguments[1][9]
        /\ call.value[2] = call.arguments[1][10]
        /\ call.value[3].fitness = NullFitness

\* the evaluation the local search of call c made last gave a score above the
\* anchor's and became the anchor
JustImproved(c) ==
    /\ calls[c].phase = "local" /\ calls[c].pc = "delay"
    /\ results # <<>>
    /\ calls[c].currentBest = results[Len(results)]

\* C33: local search takes the first improvement: once a neighbor scored
\* above the anchor it becomes the anchor and the search goes on with the
\* next parameter; the neighbors of the parameter that are left, generated
\* from the old anchor, are not evaluated.
C33_FirstImprovementMovesOn ==
    [][\A c \in Calls :
          JustImproved(c) /\ calls'[c].pc = "eval" =>
              /\ calls'[c].i = 0
              /\ calls'[c].evalParameters
                    \in { generateNeighbors(calls[c].currentBest.parameters,
                                            calls[c].parameters[k])[1] :
                            k \in { j \in 1..Len(calls[c].parameters) :
                                      generateNeighbors(calls[c].currentBest.parameters,
                                                        calls[c].parameters[j]) # <<>> } }]_vars

\* the step makes call c begin another round over the parameters: its next
\* evaluation is a first neighbor, of a parameter that is not a later one
StartsRound(c) ==
    /\ calls[c].phase = "local" /\ calls[c].pc = "delay"
    /\ calls'[c].phase = "local" /\ calls'[c].pc = "eval"
    /\ calls'[c].i = 0
    /\ calls'[c].paramIndex <= calls[c].paramIndex

\* the step is the return of an evaluation to the local search of call c
LocalEvaluated(c) ==
    /\ calls[c].phase = "local" /\ calls[c].pc = "eval"
    /\ calls'[c].phase = "local" /\ calls'[c].pc = "delay"

\* C34: local search makes at most `iterations` evaluations. A round counts
\* as improved exactly if one of its evaluations scored strictly above the
\* anchor of the moment, which it then replaces; another round over the
\* parameters is begun only after an improved round, and a round without
\* improvement ends the phase. Definitions that have no neighbor give a
\* round without evaluation, so the phase ends at once.
C34_LocalSearchRounds ==
    [][\A c \in Calls :
          /\ calls'[c].phase = "local" => calls'[c].tested <= Max(0, calls'[c].iterations)
          /\ calls'[c].phase = "local" =>
                \E k \in 1..Len(calls'[c].parameters) :
                   calls'[c].parameters[k].min < calls'[c].parameters[k].max
          /\ LocalEvaluated(c) =>
                LET result == results'[Len(results')]
                    better == result.score > calls[c].currentBest.score
                IN /\ calls'[c].improved = (calls[c].improved \/ better)
                   /\ calls'[c].currentBest = IF better THEN result ELSE calls[c].currentBest
          /\ StartsRound(c) => calls[c].improved /\ ~calls'[c].improved]_vars

\* a second round began after a round that improved, and its first
\* evaluation is the last the budget of 3 allows
C34_Witness ==
    \E c \in Calls :
        /\ calls[c].phase = "local" /\ calls[c].pc = "eval"
        /\ ~calls[c].improved
        /\ calls[c].currentBest.score > 0
        /\ calls[c].iterations = 3 /\ calls[c].tested = 3

\* C35: the iteration field of a result is the number of results recorded
\* before it in the run, 0 for the first, in every profile and phase: the
\* fields of the recorded results are unique and rise in the order in which
\* the evaluations completed.
C35_IterationCountsRecorded ==
    [][/\ Len(results') = Len(results) + 1 =>
             results'[Len(results')].iteration = Len(results)
       /\ \A j, k \in 1..Len(results') :
             results'[j].ref < results'[k].ref =>
                 results'[j].iteration < results'[k].iteration]_vars

\* set is source with the value of the numeric definition param moved by one
\* or two steps, up or down, held within [min, max], and is not source
MovedAlong(set, source, param) ==
    /\ param.type = "integer"
    /\ set = [source EXCEPT ![param.name] = set[param.name]]
    /\ set[param.name] # source[param.name]
    /\ param.min <= set[param.name] /\ set[param.name] <= param.max
    /\ \E multiplier \in {-2, -1, 1, 2} :
          LET moved == source[param.name] + multiplier * param.step
          IN set[param.name] = IF moved < param.min THEN param.min
                               ELSE IF moved > param.max THEN param.max
                               ELSE moved

C37_ProgressWithinTotal ==
    \A k \in 1..Len(emitted) : emitted[k].current <= emitted[k].total

\* C38: for integer definitions with min <= max every parameter set handed
\* to the evaluator, in every phase of every profile, gives each numeric
\* parameter a value within [min, max].
C38_EvaluatedValuesWithinBounds ==
    \A c \in Calls :
        calls[c].pc = "eval" /\ WellFormed(calls[c].parameters) =>
            \A k \in 1..Len(calls[c].parameters) :
                LET param == calls[c].parameters[k]
                IN param.type = "integer" =>
                      /\ param.name \in DOMAIN calls[c].evalParameters
                      /\ calls[c].evalParameters[param.name] \in param.min..param.max

\* the local search evaluates the second neighbor of the anchor a = 0 of the
\* definition a (0..1): two steps up, held at the maximum 1
C38_Witness ==
    \E c \in Calls :
        /\ calls[c].phase = "local" /\ calls[c].pc = "eval"
        /\ calls[c].parameters = <<ParamLength>>
        /\ calls[c].currentBest.parameters = [a |-> 0]
        /\ calls[c].i = 1
        /\ calls[c].evalParameters = [a |-> 1]

\* C39: the summary of a run that made at least one evaluation lists
\* min(10, totalTests) top results in non-increasing order of score, and the
\* first of them is the very result bestResult points to, also when several
\* results share the highest score.
C39_TopResultsLedByBest ==
    \A c \in Calls :
        IF calls[c].summary = Null THEN TRUE
        ELSE calls[c].summary.totalTests >= 1 =>
                LET top == calls[c].summary.topResults
                IN /\ Len(top) = Min(10, calls[c].summary.totalTests)
                   /\ \A k \in 1..(Len(top) - 1) : top[k].score >= top[k + 1].score
                   /\ top[1] = calls[c].summary.bestResult

\* C40: in every profile a run that is not cancelled, with maxIterations of
\* at least 1 over at least one numeric parameter, makes at least one
\* evaluation: its summary has totalTests >= 1 and a bestResult.
C40_RunEvaluatesAtLeastOnce ==
    \A c \in Calls :
        IF calls[c].summary = Null THEN TRUE
        ELSE /\ ~calls[c].stopped
             /\ calls[c].maxIterations >= 1
             /\ \E k \in 1..Len(calls[c].parameters) : calls[c].parameters[k].type = "integer"
             => /\ calls[c].summary.totalTests >= 1
                /\ calls[c].summary.bestResult # Null
====
